---- MODULE Spec2Model ----
(***************************************************************************)
(* A model of whatlies.embeddingset.EmbeddingSet                           *)
(* (src/whatlies/embeddingset.py).                                         *)
(*                                                                         *)
(* The state is the Python object heap of a client session: the Embedding, *)
(* dict and EmbeddingSet objects the client holds in its variables, each   *)
(* with an identity (its index in the heap), plus the outcome of the last  *)
(* call.  A call that returns a new EmbeddingSet returns it, with the dict  *)
(* and the Embedding objects created for it, in `ret`; their identities    *)
(* continue the heap's.  The client then binds the returned collection to  *)
(* a variable (Bind) or drops it (Discard), and makes its next call.       *)
(* Every public method the claims are about is one action.                 *)
(*                                                                         *)
(* Numbers are exact rationals <<num, den>>; the metrics modelled are the  *)
(* two sklearn metrics whose values are rational on rational input         *)
(* ("cityblock" and "sqeuclidean").                                        *)
(***************************************************************************)
EXTENDS Integers, Sequences, FiniteSets, TLC

VARIABLES ents, dicts, colls, ret

vars == <<ents, dicts, colls, ret>>

(* ------------------------------ bounds --------------------------------- *)

\* Most positional arguments a client passes to EmbeddingSet(...).
MaxArgs == 2

\* The variables the client binds collections to.
ClientVars == {"emb1", "emb2"}

(* ------------------------- rational arithmetic ------------------------- *)

Abs(i) == IF i < 0 THEN -i ELSE i

RECURSIVE Gcd(_, _)
Gcd(a, b) == IF b = 0 THEN a ELSE Gcd(b, a % b)

\* The rational n/d in lowest terms with a positive denominator.
Rat(n, d) ==
    LET s == IF d < 0 THEN -1 ELSE 1
        g == Gcd(Abs(n), Abs(d))
    IN  <<(s * n) \div g, (s * d) \div g>>

RInt(i) == <<i, 1>>
RAdd(x, y) == Rat(x[1] * y[2] + y[1] * x[2], x[2] * y[2])
RSub(x, y) == Rat(x[1] * y[2] - y[1] * x[2], x[2] * y[2])
RMul(x, y) == Rat(x[1] * y[1], x[2] * y[2])
RDiv(x, y) == Rat(x[1] * y[2], x[2] * y[1])
RLess(x, y) == x[1] * y[2] < y[1] * x[2]
RAbs(x) == <<Abs(x[1]), x[2]>>
RZero == RInt(0)

(* ------------------------------- vectors ------------------------------- *)

\* The coordinates of a vector: every vector of the model has the same
\* dimension d (spec section 3), here two.
Coords == {1, 2}

Dim == Cardinality(Coords)

Vec(a, b) == <<RInt(a), RInt(b)>>

VAdd(u, v) == [i \in Coords |-> RAdd(u[i], v[i])]
VSub(u, v) == [i \in Coords |-> RSub(u[i], v[i])]
VScale(r, v) == [i \in Coords |-> RMul(r, v[i])]

RECURSIVE RSum(_, _)
\* f[1] + ... + f[k]
RSum(f, k) == IF k = 0 THEN RZero ELSE RAdd(RSum(f, k - 1), f[k])

Dot(u, v) == RSum([i \in Coords |-> RMul(u[i], v[i])], Dim)

\* numpy's nan: what np.mean gives for an empty array.
NaN == "nan"

(* ------------------- Embedding (whatlies.embedding) -------------------- *)
(* The Embedding class is imported at embeddingset.py:12 and is not part   *)
(* of the sources at hand; it is modelled from the specification's         *)
(* "Vector Entity" (sections 3 and 4.1).                                   *)

Embedding(name, vector) == [name |-> name, vector |-> vector]

\* What an entity-level operator gives when its axis is the zero vector.
ZeroVectorDivision == [name |-> "ZeroVectorDivision", vector |-> NaN]

OpLabel(a, sym, b) == "(" \o a \o " " \o sym \o " " \o b \o ")"

EmbAdd(a, b) == Embedding(OpLabel(a.name, "+", b.name), VAdd(a.vector, b.vector))

EmbSub(a, b) == Embedding(OpLabel(a.name, "-", b.name), VSub(a.vector, b.vector))

\* a >> b: the component of a along b, (a.b / b.b) * b.
EmbRshift(a, b) ==
    IF Dot(b.vector, b.vector) = RZero THEN ZeroVectorDivision
    ELSE Embedding(OpLabel(a.name, ">>", b.name),
                   VScale(RDiv(Dot(a.vector, b.vector), Dot(b.vector, b.vector)),
                          b.vector))

\* a | b: a minus its projection onto b.
EmbOr(a, b) ==
    IF Dot(b.vector, b.vector) = RZero THEN ZeroVectorDivision
    ELSE Embedding(OpLabel(a.name, "|", b.name),
                   VSub(a.vector,
                        VScale(RDiv(Dot(a.vector, b.vector), Dot(b.vector, b.vector)),
                               b.vector)))

OpSymbols == {"+", "-", "|", ">>"}

EmbOp(sym, a, b) ==
    CASE sym = "+" -> EmbAdd(a, b)
      [] sym = "-" -> EmbSub(a, b)
      [] sym = "|" -> EmbOr(a, b)
      [] sym = ">>" -> EmbRshift(a, b)

(* ------------------------------ the heap ------------------------------- *)
(* ents[i], dicts[i] and colls[i] are the i-th Embedding, dict and        *)
(* EmbeddingSet object; an object's identity is its index.  A reference    *)
(* names the kind of object it points at.                                  *)

EmbRef(i) == [kind |-> "emb", id |-> i]
DictRef(i) == [kind |-> "dict", id |-> i]

\* The Embedding objects the client starts with.
BaseEntities ==
    << Embedding("foo", Vec(1, 0)),
       Embedding("bar", Vec(0, 1)),
       Embedding("foo", Vec(1, 1)) >>

BaseIds == 1..Len(BaseEntities)

(* ----------------------- Python dict, insertion-ordered ---------------- *)
(* A dict is the sequence of its items [key, val] in insertion order, the  *)
(* keys distinct; val is the identity of an Embedding object.              *)

Item(k, v) == [key |-> k, val |-> v]

DictKeys(d) == [i \in 1..Len(d) |-> d[i].key]

KeySet(d) == {d[i].key : i \in 1..Len(d)}

HasKey(d, k) == k \in KeySet(d)

\* d[k], for a key that is present.
DictGet(d, k) == d[CHOOSE i \in 1..Len(d) : d[i].key = k].val

\* d[k] = v: a present key keeps its place and takes the new value, a new
\* key goes last.
DictSet(d, k, v) ==
    IF HasKey(d, k)
    THEN [i \in 1..Len(d) |-> IF d[i].key = k THEN Item(k, v) ELSE d[i]]
    ELSE Append(d, Item(k, v))

RECURSIVE DictFromItems(_)
\* The dict a comprehension builds from the items it yields, in order.
DictFromItems(items) ==
    IF items = <<>> THEN <<>>
    ELSE LET n == Len(items)
         IN  DictSet(DictFromItems(SubSeq(items, 1, n - 1)), items[n].key, items[n].val)

(* --------------------------- the last call ----------------------------- *)

Returned(op, self, args, value) ==
    [op |-> op, self |-> self, args |-> args, status |-> "return",
     exc |-> "", msg |-> <<>>, value |-> value]

Raised(op, self, args, exc, msg) ==
    [op |-> op, self |-> self, args |-> args, status |-> "raise",
     exc |-> exc, msg |-> msg, value |-> <<>>]

(* ------------------------ EmbeddingSet.__init__ ------------------------ *)

\* name, or "Emb" when it is None or empty (None is modelled as "").
InitName(name) == IF name = "" THEN "Emb" ELSE name

\* The new object's `embeddings` attribute: the single positional argument
\* itself when there is exactly one, else a new dict keyed by each
\* argument's name.  newDict is the identity the new dict would get.
InitEmbeddings(args, newDict) ==
    IF Len(args) = 1 THEN args[1] ELSE DictRef(newDict)

\* {t.name: t for t in embeddings}, for Embedding arguments.
InitDict(args, es) ==
    DictFromItems([i \in 1..Len(args) |-> Item(es[args[i].id].name, args[i].id)])

\* dicts after EmbeddingSet(*args): a dict is created unless len(args) = 1.
InitDicts(args, es, ds) ==
    IF Len(args) = 1 THEN ds ELSE Append(ds, InitDict(args, es))

EmbeddingSetObj(args, name, newDict) ==
    [name |-> InitName(name), embeddings |-> InitEmbeddings(args, newDict)]

(* ------------------------------ inputs --------------------------------- *)

RECURSIVE SeqsUpTo(_, _)
\* The sequences over S of length at most n.
SeqsUpTo(S, n) ==
    IF n = 0 THEN {<<>>}
    ELSE LET shorter == SeqsUpTo(S, n - 1)
         IN  shorter \cup {Append(s, x) : s \in {t \in shorter : Len(t) = n - 1}, x \in S}

\* The dicts a client passes as EmbeddingSet(mapping): keys need not be the
\* entities' names, and two keys may hold entities of the same name.
MappingArgs ==
    { << Item("foo", 1), Item("bar", 3) >>,
      << Item("buz", 2), Item("foo", 3) >> }

\* The argument lists of EmbeddingSet(e1, ..., ek): up to MaxArgs distinct
\* Embedding objects.
VariadicArgs ==
    {s \in SeqsUpTo(BaseIds, MaxArgs) : \A i, j \in 1..Len(s) : i # j => s[i] # s[j]}

(* ------------------------------- Init ---------------------------------- *)

NoCall == Returned("none", 0, <<>>, <<>>)

Init ==
    /\ ents = BaseEntities
    /\ dicts = <<>>
    /\ colls = <<>>
    /\ ret = NoCall

CollIds == 1..Len(colls)

\* The client is between two calls.
Idle == ret = NoCall

(* ------------------------- a returned collection ----------------------- *)

\* A new EmbeddingSet as a call returns it: the object, the dicts and the
\* Embedding objects created for it.  A new dict takes the identity
\* Len(dicts) + 1 and the new entities Len(ents) + 1, Len(ents) + 2, ...
NewSet(args, name, newDicts, made) ==
    [coll |-> EmbeddingSetObj(args, name, Len(dicts) + 1),
     dicts |-> newDicts,
     ents |-> made]

\* EmbeddingSet(new_embeddings, name=name), new_embeddings a dict just built.
Fresh(name, d, made) == NewSet(<<DictRef(Len(dicts) + 1)>>, name, <<d>>, made)

\* The calls that return a new EmbeddingSet.
Makers ==
    {"EmbeddingSet", "+", "-", "|", ">>", "filter", "merge", "subset", "embset_similar"}

ReturnedSet == ret.status = "return" /\ ret.op \in Makers

(* ------------------------------ actions -------------------------------- *)

\* EmbeddingSet(e1, ..., ek): the variadic constructor.
Construct(args) ==
    /\ Idle
    /\ LET refs == [i \in 1..Len(args) |-> EmbRef(args[i])]
       IN  ret' = Returned("EmbeddingSet", 0, refs,
                           NewSet(refs, "", InitDicts(refs, ents, <<>>), <<>>))
    /\ UNCHANGED <<ents, dicts, colls>>

\* EmbeddingSet(mapping): the client's dict is the one positional argument.
ConstructMapping(m) ==
    /\ Idle
    /\ ret' = Returned("EmbeddingSet", 0, <<DictRef(Len(dicts) + 1)>>, Fresh("", m, <<>>))
    /\ UNCHANGED <<ents, dicts, colls>>

\* emb = <the collection just returned>: the client keeps it.
Bind ==
    /\ ReturnedSet
    /\ Len(colls) < Cardinality(ClientVars)
    /\ colls' = Append(colls, ret.value.coll)
    /\ dicts' = dicts \o ret.value.dicts
    /\ ents' = ents \o ret.value.ents
    /\ ret' = NoCall

\* The client is done with the outcome of the last call.
Discard ==
    /\ ~Idle
    /\ ret' = NoCall
    /\ UNCHANGED <<ents, dicts, colls>>

(* ----------------------- reading a collection -------------------------- *)

\* Whether self.embeddings is a dict (it is an Embedding after
\* EmbeddingSet(e) with one entity: __init__ takes it for the mapping).
IsMapping(c) == colls[c].embeddings.kind = "dict"

\* self.embeddings, for a collection whose embeddings is a dict.
Entries(c) == dicts[colls[c].embeddings.id]

\* An Embedding has no keys(), values() or items(), is no mapping for **
\* and cannot be subscripted.
NoAttribute == "AttributeError"
NotAMapping == "TypeError"

(* ------------------- algebra: __add__ __sub__ __or__ __rshift__ -------- *)

\* The operator applied member against member: each entity against the
\* collection's last one.
LiftedPairwise(sym, d, o) ==
    [i \in 1..Len(d) |-> EmbOp(sym, ents[d[i].val], ents[d[Len(d)].val])]

\* [emb <sym> other for k, emb in self.embeddings.items()]: the new
\* Embedding objects, in self's iteration order.
LiftedEntities(sym, d, o) ==
    [i \in 1..Len(d) |-> EmbOp(sym, ents[d[i].val], ents[o])]

\* {k: emb <sym> other for k, emb in self.embeddings.items()}, the new
\* entities taking the identities first + 1, first + 2, ...
LiftedDict(d, first) == [i \in 1..Len(d) |-> Item(d[i].key, first + i)]

\* f"({self.name} <sym> {other.name})"
LiftedName(sym, c, o) == OpLabel(colls[c].name, sym, ents[o].name)

Lifted(sym, c, o) ==
    /\ Idle
    /\ c \in CollIds
    /\ o \in 1..Len(ents)
    /\ ret' = IF ~IsMapping(c) THEN Raised(sym, c, <<o>>, NoAttribute, <<>>)
              ELSE LET d == Entries(c)
                       made == LiftedEntities(sym, d, o)
                   IN  IF \E i \in 1..Len(made) : made[i] = ZeroVectorDivision
                       THEN Raised(sym, c, <<o>>, "ZeroVectorDivision", <<>>)
                       ELSE Returned(sym, c, <<o>>,
                                Fresh(LiftedName(sym, c, o), LiftedDict(d, Len(ents)), made))
    /\ UNCHANGED <<ents, dicts, colls>>

Add(c, o) == Lifted("+", c, o)

Sub(c, o) == Lifted("-", c, o)

Or(c, o) == Lifted("|", c, o)

Rshift(c, o) == Lifted(">>", c, o)

(* ------------------------------- filter -------------------------------- *)

\* The predicates a client filters with: on the name or on the vector.
Predicates ==
    { [on |-> "name_is", arg |-> "foo"],
      [on |-> "name_is_not", arg |-> "foo"],
      [on |-> "first_coordinate_is", arg |-> RInt(1)] }

\* func(v)
Holds(p, e) ==
    CASE p.on = "name_is" -> e.name = p.arg
      [] p.on = "name_is_not" -> e.name # p.arg
      [] p.on = "first_coordinate_is" -> e.vector[1] = p.arg

\* Whether the item (k, v) passes `if func(v)`.
Passes(p, it) == Holds(p, ents[it.val])

\* A filter that keeps what the predicate rejects.
FilterDictRejected(d, p) == SelectSeq(d, LAMBDA it : ~Passes(p, it))

\* {k: v for k, v in self.embeddings.items() if func(v)}
FilterDict(d, p) == SelectSeq(d, LAMBDA it : Passes(p, it))

Filter(c, p) ==
    /\ Idle
    /\ c \in CollIds
    /\ ret' = IF ~IsMapping(c) THEN Raised("filter", c, <<p>>, NoAttribute, <<>>)
              ELSE Returned("filter", c, <<p>>, Fresh("", FilterDict(Entries(c), p), <<>>))
    /\ UNCHANGED <<ents, dicts, colls>>

(* -------------------------------- merge -------------------------------- *)

\* A merge in which the receiver's entry wins.
MergeDictLeftWins(a, b) == DictFromItems(b \o a)

\* {**a, **b}
MergeDict(a, b) == DictFromItems(a \o b)

\* A merge done in place, self.embeddings.update(other.embeddings).
DictsAfterUpdate(c, o) ==
    [dicts EXCEPT ![colls[c].embeddings.id] = MergeDict(Entries(c), Entries(o))]

\* The dict objects after merge: it builds a new dict and updates none.
DictsAfterMerge(c, o) == dicts

Merge(c, o) ==
    /\ Idle
    /\ c \in CollIds
    /\ o \in CollIds
    /\ IF ~IsMapping(c) \/ ~IsMapping(o)
       THEN /\ ret' = Raised("merge", c, <<o>>, NotAMapping, <<>>)
            /\ dicts' = dicts
       ELSE /\ ret' = Returned("merge", c, <<o>>,
                               Fresh("", MergeDict(Entries(c), Entries(o)), <<>>))
            /\ dicts' = DictsAfterMerge(c, o)
    /\ UNCHANGED <<ents, colls>>

(* ----------------------------- __getitem__ ----------------------------- *)

\* The names a client looks up or queries with.
QueryNames == {"foo", "bar"}

\* self[thing] for a str: the outcome, [ok, val] or [ok, exc, key].
GetOne(c, k) ==
    IF ~IsMapping(c) THEN [ok |-> FALSE, exc |-> NotAMapping, key |-> k, val |-> 0]
    ELSE IF ~HasKey(Entries(c), k) THEN [ok |-> FALSE, exc |-> "KeyError", key |-> k, val |-> 0]
    ELSE [ok |-> TRUE, exc |-> "", key |-> k, val |-> DictGet(Entries(c), k)]

GetItemStr(c, k) ==
    /\ Idle
    /\ c \in CollIds
    /\ LET r == GetOne(c, k)
       IN  ret' = IF r.ok THEN Returned("getitem", c, <<k>>, r.val)
                  ELSE Raised("getitem", c, <<k>>, r.exc, <<r.key>>)
    /\ UNCHANGED <<ents, dicts, colls>>

RECURSIVE Join(_, _)
\* sep.join(names)
Join(sep, names) ==
    IF names = <<>> THEN ""
    ELSE IF Len(names) = 1 THEN names[1]
    ELSE Join(sep, SubSeq(names, 1, Len(names) - 1)) \o sep \o names[Len(names)]

\* f"{self.name}.subset({names})"
SubsetName(c, thing) == colls[c].name \o ".subset(" \o Join(",", thing) \o ")"

\* {t: self[t] for t in thing}, when every lookup succeeds.
SubsetDict(c, thing) ==
    DictFromItems([i \in 1..Len(thing) |-> Item(thing[i], GetOne(c, thing[i]).val)])

\* A lookup that passes over the names it does not find.
NoFailure(c, thing) == 0

\* The first t in thing whose lookup self[t] raises, or 0.
FirstFailure(c, thing) ==
    IF \E i \in 1..Len(thing) : ~GetOne(c, thing[i]).ok
    THEN CHOOSE i \in 1..Len(thing) :
            /\ ~GetOne(c, thing[i]).ok
            /\ \A j \in 1..(i - 1) : GetOne(c, thing[j]).ok
    ELSE 0

GetItemList(c, thing) ==
    /\ Idle
    /\ c \in CollIds
    /\ LET bad == FirstFailure(c, thing)
       IN  ret' = IF bad # 0
                  THEN Raised("subset", c, <<thing>>, GetOne(c, thing[bad]).exc, <<thing[bad]>>)
                  ELSE Returned("subset", c, <<thing>>,
                                Fresh(SubsetName(c, thing), SubsetDict(c, thing), <<>>))
    /\ UNCHANGED <<ents, dicts, colls>>

(* -------------------------------- to_X --------------------------------- *)

\* np.array([i.vector for i in self.embeddings.values()]): the rows of the
\* matrix, in iteration order.
ToX(d) == [i \in 1..Len(d) |-> ents[d[i].val].vector]

(* ------------------------------- average ------------------------------- *)

\* The names a client gives the average; "" stands for None.
AverageNames == {"", "the-average"}

\* f"{self.name}.average()" if not name else name
AverageName(c, name) == IF name = "" THEN colls[c].name \o ".average()" ELSE name

\* np.mean(x, axis=0): the column means, and nan (with a warning, no
\* exception) for the empty array np.array([]).
Mean(x) ==
    IF x = <<>> THEN NaN
    ELSE [j \in Coords |->
            RDiv(RSum([i \in 1..Len(x) |-> x[i][j]], Len(x)), RInt(Len(x)))]

Average(c, name) ==
    /\ Idle
    /\ c \in CollIds
    /\ ret' = IF ~IsMapping(c)
              THEN Raised("average", c, <<name>>, NoAttribute, <<>>)
              ELSE Returned("average", c, <<name>>,
                            Embedding(AverageName(c, name), Mean(ToX(Entries(c)))))
    /\ UNCHANGED <<ents, dicts, colls>>

(* ------------------------ distances (sklearn) -------------------------- *)

\* The metric identifiers of the model.  Both are accepted by
\* pairwise_distances; paired_distances knows "cityblock" and not
\* "sqeuclidean".
Metrics == {"cityblock", "sqeuclidean"}

PairedMetrics == {"cityblock"}

Distance(metric, u, v) ==
    IF metric = "cityblock"
    THEN RSum([i \in Coords |-> RAbs(RSub(u[i], v[i]))], Dim)
    ELSE Dot(VSub(u, v), VSub(u, v))

\* Whether sklearn accepts the matrix: check_array refuses an array with
\* no rows (np.array([]) is one-dimensional) with a ValueError.
AcceptsMatrix(x) == x # <<>>

\* pairwise_distances(vector_matrix, vec.reshape(1, -1), metric): one
\* distance per row.
PairwiseDistances(x, vec, metric) == [i \in 1..Len(x) |-> Distance(metric, x[i], vec)]

(* ---------------------------- score_similar ---------------------------- *)

RECURSIVE InsertBeforeEqual(_, _)
\* An ascending insertion that puts z in front of the elements equal to it.
InsertBeforeEqual(s, z) ==
    IF s = <<>> THEN <<z>>
    ELSE IF ~RLess(s[Len(s)].dist, z.dist)
         THEN Append(InsertBeforeEqual(SubSeq(s, 1, Len(s) - 1), z), s[Len(s)])
         ELSE Append(s, z)

RECURSIVE InsertByDistance(_, _)
\* z put into the sorted sequence s behind every element that is not
\* greater than it.
InsertByDistance(s, z) ==
    IF s = <<>> THEN <<z>>
    ELSE IF RLess(z.dist, s[Len(s)].dist)
         THEN Append(InsertByDistance(SubSeq(s, 1, Len(s) - 1), z), s[Len(s)])
         ELSE Append(s, z)

\* The pairs left in iteration order.
Unsorted(pairs) == pairs

RECURSIVE SortedByDistance(_)
\* sorted(pairs, key=lambda z: z[1]): ascending and stable.
SortedByDistance(pairs) ==
    IF pairs = <<>> THEN <<>>
    ELSE InsertByDistance(SortedByDistance(SubSeq(pairs, 1, Len(pairs) - 1)),
                          pairs[Len(pairs)])

\* A bounds check that lets n = len + 1 through.
TooManyOffByOne(n, d) == n > Len(d) + 1

\* n > len(self)
TooMany(n, d) == n > Len(d)

\* s[:n], a negative n counting from the end.
SliceTo(s, n) ==
    IF n >= 0 THEN SubSeq(s, 1, IF n < Len(s) THEN n ELSE Len(s))
    ELSE SubSeq(s, 1, IF Len(s) + n > 0 THEN Len(s) + n ELSE 0)

\* zip(queries, distances)
Zipped(d, distances) == [i \in 1..Len(d) |-> [key |-> d[i].key, dist |-> distances[i]]]

\* [(self[q], float(d)) for q, d in by_similarity[:n]]
Ranked(d, vec, n, metric) ==
    LET top == SliceTo(SortedByDistance(Zipped(d, PairwiseDistances(ToX(d), vec, metric))), n)
    IN  [i \in 1..Len(top) |-> [emb |-> DictGet(d, top[i].key), dist |-> top[i].dist]]

\* A query: an Embedding object or a name.
EntityQuery(e) == [str |-> FALSE, name |-> "", id |-> e]
NameQuery(k) == [str |-> TRUE, name |-> k, id |-> 0]

Queries == {EntityQuery(e) : e \in 1..Len(ents)} \cup {NameQuery(k) : k \in QueryNames}

\* The values of n a client asks collection c for: up to one more than it
\* can hold.
NValues(c) == 0..((IF IsMapping(c) THEN Len(Entries(c)) ELSE 0) + 1)

\* A name check that also turns away an Embedding whose name is not a key.
MissingOrForeign(q, d) == ~HasKey(d, IF q.str THEN q.name ELSE ents[q.id].name)

\* isinstance(emb, str) and emb not in self.embeddings.keys()
Missing(q, d) == q.str /\ ~HasKey(d, q.name)

\* score_similar(emb, n, metric) on collection c: what it returns or raises.
ScoreSimilarResult(op, c, q, n, metric) ==
    LET args == <<q, n, metric>>
    IN  IF ~IsMapping(c) THEN Raised(op, c, args, NoAttribute, <<>>)
        ELSE LET d == Entries(c)
             IN  IF TooMany(n, d)
                 THEN Raised(op, c, args, "ValueError", [n |-> n, len |-> Len(d)])
                 ELSE IF Missing(q, d)
                 THEN Raised(op, c, args, "ValueError", [key |-> q.name])
                 ELSE LET emb == IF q.str THEN DictGet(d, q.name) ELSE q.id
                      IN  IF ~AcceptsMatrix(ToX(d))
                          THEN Raised(op, c, args, "ValueError", [array |-> ToX(d)])
                          ELSE Returned(op, c, args, Ranked(d, ents[emb].vector, n, metric))

ScoreSimilar(c, q, n, metric) ==
    /\ Idle
    /\ c \in CollIds
    /\ ret' = ScoreSimilarResult("score_similar", c, q, n, metric)
    /\ UNCHANGED <<ents, dicts, colls>>

(* --------------------------- embset_similar ---------------------------- *)

\* {w.name: w for w in embs}
SimilarDict(ranked) ==
    DictFromItems([i \in 1..Len(ranked) |-> Item(ents[ranked[i].emb].name, ranked[i].emb)])

EmbsetSimilar(c, q, n, metric) ==
    /\ Idle
    /\ c \in CollIds
    /\ LET r == ScoreSimilarResult("embset_similar", c, q, n, metric)
       IN  ret' = IF r.status = "raise" THEN r
                  ELSE Returned("embset_similar", c, <<q, n, metric>>,
                                Fresh("", SimilarDict(r.value), <<>>))
    /\ UNCHANGED <<ents, dicts, colls>>

(* ----------------------------- movement_df ----------------------------- *)

\* The orders list(set(...)) may give a set of keys: any of them.
Orderings(S) ==
    {s \in SeqsUpTo(S, Cardinality(S)) : Len(s) = Cardinality(S) /\ {s[i] : i \in 1..Len(s)} = S}

\* set(self.embeddings.keys()).intersection(set(other.embeddings.keys()))
Overlap(a, b) == KeySet(a) \cap KeySet(b)

\* The frame before sorting: row i holds overlap[i] and the distance
\* between the two vectors under that key.
MovementRows(a, b, overlap, metric) ==
    [i \in 1..Len(overlap) |->
        [index |-> i - 1, name |-> overlap[i],
         movement |-> Distance(metric, ents[DictGet(a, overlap[i])].vector,
                                       ents[DictGet(b, overlap[i])].vector)]]

\* Whether rows is in descending order of movement.
Descending(rows) ==
    \A i \in 1..(Len(rows) - 1) : ~RLess(rows[i].movement, rows[i + 1].movement)

\* .sort_values(["movement"], ascending=False).reset_index(): the rows in
\* descending order; the sort is not stable, so tied rows come in any order.
SortedFrames(rows) ==
    {s \in Orderings({rows[i] : i \in 1..Len(rows)}) : Descending(s)}

MovementDf(c, o, metric) ==
    /\ Idle
    /\ c \in CollIds
    /\ o \in CollIds
    /\ LET args == <<o, metric>>
       IN  IF ~IsMapping(c) \/ ~IsMapping(o)
           THEN ret' = Raised("movement_df", c, args, NoAttribute, <<>>)
           ELSE IF Overlap(Entries(c), Entries(o)) = {}
           THEN ret' = Raised("movement_df", c, args, "ValueError", [array |-> <<>>])
           ELSE IF metric \notin PairedMetrics
           THEN ret' = Raised("movement_df", c, args, "ValueError", [metric |-> metric])
           ELSE \E overlap \in Orderings(Overlap(Entries(c), Entries(o))) :
                  \E frame \in SortedFrames(MovementRows(Entries(c), Entries(o), overlap, metric)) :
                     ret' = Returned("movement_df", c, args, frame)
    /\ UNCHANGED <<ents, dicts, colls>>

Next ==
    \/ \E args \in VariadicArgs : Construct(args)
    \/ \E m \in MappingArgs : ConstructMapping(m)
    \/ Bind
    \/ Discard
    \/ \E c \in CollIds, o \in 1..Len(ents) : Add(c, o)
    \/ \E c \in CollIds, o \in 1..Len(ents) : Sub(c, o)
    \/ \E c \in CollIds, o \in 1..Len(ents) : Or(c, o)
    \/ \E c \in CollIds, o \in 1..Len(ents) : Rshift(c, o)
    \/ \E c \in CollIds, p \in Predicates : Filter(c, p)
    \/ \E c \in CollIds, o \in CollIds : Merge(c, o)
    \/ \E c \in CollIds, k \in QueryNames : GetItemStr(c, k)
    \/ \E c \in CollIds, thing \in SeqsUpTo(QueryNames, MaxArgs) : GetItemList(c, thing)
    \/ \E c \in CollIds, name \in AverageNames : Average(c, name)
    \/ \E c \in CollIds, q \in Queries, metric \in Metrics :
          \E n \in NValues(c) : ScoreSimilar(c, q, n, metric)
    \/ \E c \in CollIds, q \in Queries, metric \in Metrics :
          \E n \in NValues(c) : EmbsetSimilar(c, q, n, metric)
    \/ \E c \in CollIds, o \in CollIds, metric \in Metrics : MovementDf(c, o, metric)

Spec == Init /\ [][Next]_vars

(* ======================= the claims, C1 to C10 ========================= *)

\* The entries of the collection the last call returned.
RetEntries == ret.value.dicts[1]

\* Every Embedding object: the heap's and the ones the last call made.
AllEnts == ents \o (IF ReturnedSet THEN ret.value.ents ELSE <<>>)

\* Whether the keys of d are pairwise distinct.
KeysDistinct(d) == \A p, q \in 1..Len(d) : d[p].key = d[q].key => p = q

\* The place of key k in d.
KeyIndex(d, k) == CHOOSE p \in 1..Len(d) : d[p].key = k

(* ------------------------------- C3 ------------------------------------ *)

\* The last call was EmbeddingSet(e1, ..., ek) with k Embedding arguments.
VariadicCall ==
    /\ ret.op = "EmbeddingSet"
    /\ \A i \in 1..Len(ret.args) : ret.args[i].kind = "emb"

ArgName(i) == ents[ret.args[i].id].name

\* The first and the last argument that carry the name of argument i.
FirstNamed(i) == CHOOSE j \in 1..Len(ret.args) :
    ArgName(j) = ArgName(i) /\ \A h \in 1..(j - 1) : ArgName(h) # ArgName(i)
LastNamed(i) == CHOOSE j \in 1..Len(ret.args) :
    ArgName(j) = ArgName(i) /\ \A h \in (j + 1)..Len(ret.args) : ArgName(h) # ArgName(i)

\* C3: EmbeddingSet(e1, ..., ek), for every k >= 0 including k = 1, gives a
\* collection whose entries map each entity's name to that entity, in
\* argument order, a later entity of a name replacing the earlier one.
C3_VariadicBuildsMapping ==
    VariadicCall =>
        /\ ret.value.coll.embeddings.kind = "dict"
        /\ Len(ret.value.dicts) = 1
        /\ KeysDistinct(RetEntries)
        /\ KeySet(RetEntries) = {ArgName(i) : i \in 1..Len(ret.args)}
        /\ \A i \in 1..Len(ret.args) :
              DictGet(RetEntries, ArgName(i)) = ret.args[LastNamed(i)].id
        /\ \A i, j \in 1..Len(ret.args) :
              FirstNamed(i) < FirstNamed(j) =>
                  KeyIndex(RetEntries, ArgName(i)) < KeyIndex(RetEntries, ArgName(j))

(* ------------------------------- C1 ------------------------------------ *)

\* The last call was score_similar on a collection with entries.
ScoreCall == ret.op = "score_similar" /\ IsMapping(ret.self)

ScoreN == ret.args[2]
ScoreMetric == ret.args[3]
ScoreEntries == Entries(ret.self)

\* The query resolves: an entity, or a name present in the collection.
ScoreResolves == ~ret.args[1].str \/ HasKey(ScoreEntries, ret.args[1].name)

\* The vector of the resolved query.
ScoreVector ==
    IF ret.args[1].str THEN ents[DictGet(ScoreEntries, ret.args[1].name)].vector
    ELSE ents[ret.args[1].id].vector

\* The distance of the member at place p of the collection to the query.
MemberDistance(p) == Distance(ScoreMetric, ents[ScoreEntries[p].val].vector, ScoreVector)

\* The result is n pairs of a member and its distance to the query, in
\* ascending order of distance, and every member strictly closer than a
\* returned one is returned too.
TopNByDistance(v) ==
    /\ Len(v) = ScoreN
    /\ \A i \in 1..Len(v) :
          /\ \E p \in 1..Len(ScoreEntries) : ScoreEntries[p].val = v[i].emb
          /\ v[i].dist = Distance(ScoreMetric, ents[v[i].emb].vector, ScoreVector)
    /\ \A e \in {v[i].emb : i \in 1..Len(v)} :
          Cardinality({i \in 1..Len(v) : v[i].emb = e})
              <= Cardinality({p \in 1..Len(ScoreEntries) : ScoreEntries[p].val = e})
    /\ \A i, j \in 1..Len(v) : i < j => ~RLess(v[j].dist, v[i].dist)
    /\ \A i \in 1..Len(v) :
          Cardinality({p \in 1..Len(ScoreEntries) : RLess(MemberDistance(p), v[i].dist)})
              = Cardinality({j \in 1..Len(v) : RLess(v[j].dist, v[i].dist)})

\* C1 as stated: for every collection C, every query that resolves and
\* every n with 0 <= n <= len(C), score_similar returns the n nearest
\* members with their distances, ascending.
C1_ScoreSimilarEveryCollection ==
    (ScoreCall /\ ScoreResolves /\ ScoreN >= 0 /\ ScoreN <= Len(ScoreEntries)) =>
        (ret.status = "return" /\ TopNByDistance(ret.value))

\* C1, amended: the same for every collection with at least one member.
C1_ScoreSimilarNonEmpty ==
    (ScoreCall /\ ScoreResolves /\ ScoreN >= 0 /\ ScoreN <= Len(ScoreEntries)
        /\ Len(ScoreEntries) >= 1) =>
        (ret.status = "return" /\ TopNByDistance(ret.value))

\* A proper top-n: fewer members returned than the collection holds, at
\* least one returned, and the members not already in ascending order of
\* distance, so the ranking has to reorder them.
C1_Witness ==
    /\ ScoreCall /\ ret.status = "return"
    /\ ScoreN >= 1 /\ ScoreN < Len(ScoreEntries)
    /\ \E p \in 1..Len(ScoreEntries) : p > 1 /\ RLess(MemberDistance(p), MemberDistance(1))

(* ------------------------------- C2 ------------------------------------ *)

\* C2: whenever n > len(C), score_similar fails with a bounds error that
\* reports n and len(C), whatever the query (a name absent from C
\* included), and leaves C as it was.
C2_BoundsError ==
    [][ (ret'.op = "score_similar" /\ ret' # ret /\ IsMapping(ret'.self)
            /\ ret'.args[2] > Len(Entries(ret'.self)))
        => /\ ret'.status = "raise"
           /\ ret'.exc = "ValueError"
           /\ ret'.msg = [n |-> ret'.args[2], len |-> Len(Entries(ret'.self))]
           /\ colls' = colls /\ dicts' = dicts /\ ents' = ents ]_vars

\* n > len(C) with a name that is not a key of C.
C2_Witness ==
    /\ ScoreCall /\ ret.status = "raise"
    /\ ScoreN > Len(ScoreEntries)
    /\ Len(ScoreEntries) >= 1
    /\ ret.args[1].str /\ ~HasKey(ScoreEntries, ret.args[1].name)

(* ------------------------------- C4 ------------------------------------ *)

\* What score_similar returns for the arguments of the last call.
ScoreOfLastCall ==
    ScoreSimilarResult("score_similar", ret.self, ret.args[1], ret.args[2], ret.args[3]).value

\* C4: the collection embset_similar returns holds exactly the n entities
\* score_similar returns, in ranked order; its length is n.
C4_EmbsetSimilarHoldsTheRanked ==
    (ret.op = "embset_similar" /\ ret.status = "return") =>
        /\ Len(RetEntries) = ret.args[2]
        /\ \A i \in 1..Len(RetEntries) : RetEntries[i].val = ScoreOfLastCall[i].emb

(* ------------------------------- C5 ------------------------------------ *)

MergeCall == ret.op = "merge" /\ ret.status = "return"
MergeLeft == Entries(ret.self)
MergeRight == Entries(ret.args[1])

\* C5: merge(C1, C2)[k] is C2[k] for a key of both, C1[k] for a key of C1
\* alone and C2[k] for a key of C2 alone; its length is the size of the
\* union of the key sets; it iterates C1's keys in C1's order and then the
\* keys of C2 alone in C2's order.
C5_MergeRightWins ==
    MergeCall =>
        /\ KeysDistinct(RetEntries)
        /\ KeySet(RetEntries) = KeySet(MergeLeft) \cup KeySet(MergeRight)
        /\ Len(RetEntries) = Cardinality(KeySet(MergeLeft) \cup KeySet(MergeRight))
        /\ \A k \in KeySet(MergeRight) : DictGet(RetEntries, k) = DictGet(MergeRight, k)
        /\ \A k \in KeySet(MergeLeft) \ KeySet(MergeRight) :
              DictGet(RetEntries, k) = DictGet(MergeLeft, k)
        /\ DictKeys(RetEntries) =
              DictKeys(MergeLeft)
                  \o SelectSeq(DictKeys(MergeRight), LAMBDA k : k \notin KeySet(MergeLeft))

\* A merge with a key of both that holds different entities, a key of C1
\* alone and a key of C2 alone.
C5_Witness ==
    /\ MergeCall
    /\ \E k \in KeySet(MergeLeft) \cap KeySet(MergeRight) :
          DictGet(MergeLeft, k) # DictGet(MergeRight, k)
    /\ KeySet(MergeLeft) \ KeySet(MergeRight) # {}
    /\ KeySet(MergeRight) \ KeySet(MergeLeft) # {}

(* ------------------------------- C6 ------------------------------------ *)

FilterCall == ret.op = "filter" /\ ret.status = "return"
FilterSource == Entries(ret.self)

\* C6: filter(C, p) holds exactly the members of C for which p is true,
\* under their keys and in their relative order.
C6_FilterKeepsExactlyTheTrue ==
    FilterCall =>
        /\ KeysDistinct(RetEntries)
        /\ \A i \in 1..Len(FilterSource) :
              Holds(ret.args[1], ents[FilterSource[i].val])
                  <=> \E j \in 1..Len(RetEntries) : RetEntries[j] = FilterSource[i]
        /\ \A j \in 1..Len(RetEntries) :
              \E i \in 1..Len(FilterSource) : FilterSource[i] = RetEntries[j]
        /\ \A i, j \in 1..Len(RetEntries) :
              i < j => KeyIndex(FilterSource, RetEntries[i].key)
                          < KeyIndex(FilterSource, RetEntries[j].key)

\* A filter that keeps one member and drops another.
C6_Witness ==
    /\ FilterCall
    /\ Len(RetEntries) >= 1
    /\ Len(RetEntries) < Len(FilterSource)

(* ------------------------------- C7 ------------------------------------ *)

SubsetNames == ret.args[1]
SubsetSource == Entries(ret.self)

\* The first name of the list at place i.
FirstListed(i) == CHOOSE j \in 1..Len(SubsetNames) :
    SubsetNames[j] = SubsetNames[i] /\ \A h \in 1..(j - 1) : SubsetNames[h] # SubsetNames[i]

\* C7: C[list of names] is a new collection of exactly those keys, in the
\* order given, each with C's entity, when every name is in C; else it
\* fails with a lookup error naming an absent key and returns nothing.
\* C[name] is C's entity, or fails with a lookup error.
C7_IndexingByNames ==
    /\ (ret.op = "subset" /\ IsMapping(ret.self)) =>
          IF \A i \in 1..Len(SubsetNames) : HasKey(SubsetSource, SubsetNames[i])
          THEN /\ ret.status = "return"
               /\ KeysDistinct(RetEntries)
               /\ KeySet(RetEntries) = {SubsetNames[i] : i \in 1..Len(SubsetNames)}
               /\ \A k \in KeySet(RetEntries) :
                     DictGet(RetEntries, k) = DictGet(SubsetSource, k)
               /\ \A i, j \in 1..Len(SubsetNames) :
                     FirstListed(i) < FirstListed(j) =>
                         KeyIndex(RetEntries, SubsetNames[i])
                             < KeyIndex(RetEntries, SubsetNames[j])
          ELSE /\ ret.status = "raise"
               /\ ret.exc = "KeyError"
               /\ \E i \in 1..Len(SubsetNames) :
                     ret.msg = <<SubsetNames[i]>> /\ ~HasKey(SubsetSource, SubsetNames[i])
    /\ (ret.op = "getitem" /\ IsMapping(ret.self)) =>
          IF HasKey(Entries(ret.self), ret.args[1])
          THEN ret.status = "return" /\ ret.value = DictGet(Entries(ret.self), ret.args[1])
          ELSE ret.status = "raise" /\ ret.exc = "KeyError" /\ ret.msg = ret.args

\* A list whose first name is in C and whose second is not.
C7_Witness ==
    /\ ret.op = "subset" /\ IsMapping(ret.self)
    /\ ret.status = "raise"
    /\ Len(SubsetNames) = 2
    /\ HasKey(SubsetSource, SubsetNames[1])

(* ------------------------------- C8 ------------------------------------ *)

LiftCall == ret.op \in OpSymbols /\ ret.status = "return"
LiftSource == Entries(ret.self)
LiftOther == ents[ret.args[1]]

\* C8: C <op> other has C's keys in C's order, at key k the entity
\* C[k] <op> other, and the name "(<C.name> <op> <other.name>)".
C8_LiftedAgainstOneOperand ==
    /\ LiftCall =>
          /\ DictKeys(RetEntries) = DictKeys(LiftSource)
          /\ \A i \in 1..Len(LiftSource) :
                AllEnts[RetEntries[i].val] = EmbOp(ret.op, ents[LiftSource[i].val], LiftOther)
          /\ ret.value.coll.name =
                "(" \o colls[ret.self].name \o " " \o ret.op \o " " \o LiftOther.name \o ")"
    /\ (ret.op \in OpSymbols /\ IsMapping(ret.self) /\ ret.status = "raise") =>
          Dot(LiftOther.vector, LiftOther.vector) = RZero

\* A projection of a collection of two members onto an entity.
C8_Witness ==
    /\ LiftCall
    /\ ret.op = ">>"
    /\ Len(LiftSource) >= 2
    /\ colls[ret.self].name # "Emb"

(* ------------------------------- C9 ------------------------------------ *)

AverageSource == Entries(ret.self)

\* C9: average() of a collection with no members fails with an error; of
\* one with members it is the entity whose vector is the coordinate-wise
\* mean and whose name is the name given, or "<C.name>.average()".
C9_AverageFailsOnEmpty ==
    (ret.op = "average" /\ IsMapping(ret.self)) =>
        IF Len(AverageSource) = 0 THEN ret.status = "raise"
        ELSE /\ ret.status = "return"
             /\ \A j \in Coords :
                   RMul(ret.value.vector[j], RInt(Len(AverageSource)))
                       = RSum([i \in 1..Len(AverageSource) |->
                                  ents[AverageSource[i].val].vector[j]], Len(AverageSource))
             /\ ret.value.name =
                   IF ret.args[1] = "" THEN colls[ret.self].name \o ".average()"
                   ELSE ret.args[1]

(* ------------------------------- C10 ----------------------------------- *)

\* Whether s is an initial part of t.
IsPrefix(s, t) == Len(s) <= Len(t) /\ \A i \in 1..Len(s) : t[i] = s[i]

\* The calls C10 is about.
Transformations == {"+", "-", "|", ">>", "filter", "merge", "subset", "embset_similar"}

\* C10: no call changes a collection that exists: its name, its entries
\* (keys, order, the entity at each key) and its entities are as before;
\* and a transformation returns a new collection with a dict of its own.
C10_NothingIsMutated ==
    [][ /\ IsPrefix(colls, colls')
        /\ IsPrefix(dicts, dicts')
        /\ IsPrefix(ents, ents')
        /\ (ret' # ret /\ ret'.op \in Transformations /\ ret'.status = "return") =>
              /\ ret'.value.coll.embeddings = DictRef(Len(dicts) + 1)
              /\ Len(ret'.value.dicts) = 1
              /\ \A c \in CollIds : colls[c].embeddings # ret'.value.coll.embeddings ]_vars

\* A merge of two different collections that share a key.
C10_Witness ==
    /\ MergeCall
    /\ ret.self # ret.args[1]
    /\ KeySet(MergeLeft) \cap KeySet(MergeRight) # {}
    /\ Len(RetEntries) > Len(MergeLeft)

(* ------------------------------- C11 ----------------------------------- *)

\* The last call was score_similar or embset_similar on a collection with
\* entries, asking for no more than it holds.
SimilarCall ==
    /\ ret.op \in {"score_similar", "embset_similar"}
    /\ IsMapping(ret.self)
    /\ ret.args[2] <= Len(Entries(ret.self))

\* The failure that names a missing key.
LookupFailure(k) == ret.status = "raise" /\ ret.exc = "ValueError" /\ ret.msg = [key |-> k]

\* C11: with n <= len(C), a string query that is not a key of C fails with
\* the error that names the missing key, whatever the collection holds (an
\* empty one included, so before any matrix or distance is computed); a
\* query given as an Embedding never fails that way, member of C or not,
\* and on a collection with members it is answered.
C11_AbsentNameIsALookupError ==
    SimilarCall =>
        /\ (ret.args[1].str /\ ~HasKey(Entries(ret.self), ret.args[1].name)) =>
               LookupFailure(ret.args[1].name)
        /\ ~ret.args[1].str =>
               /\ ret.status = "raise" => "key" \notin DOMAIN ret.msg
               /\ Len(Entries(ret.self)) >= 1 => ret.status = "return"

\* A name that is absent is asked of a collection with members.
C11_Witness ==
    /\ SimilarCall
    /\ Len(Entries(ret.self)) >= 1
    /\ ret.args[1].str
    /\ LookupFailure(ret.args[1].name)

(* ------------------------------- C12 ----------------------------------- *)

\* The last call was movement_df between two collections with entries.
MovementCall ==
    /\ ret.op = "movement_df"
    /\ IsMapping(ret.self)
    /\ IsMapping(ret.args[1])

MovementLeft == Entries(ret.self)
MovementRight == Entries(ret.args[1])
MovementMetric == ret.args[2]

\* One row for each common key and no other, each with the distance
\* between the two vectors under its own key, in descending order.
OneRowPerCommonKey(rows) ==
    /\ Len(rows) = Cardinality(Overlap(MovementLeft, MovementRight))
    /\ {rows[i].name : i \in 1..Len(rows)} = Overlap(MovementLeft, MovementRight)
    /\ \A i \in 1..Len(rows) :
          rows[i].movement =
              Distance(MovementMetric,
                       ents[DictGet(MovementLeft, rows[i].name)].vector,
                       ents[DictGet(MovementRight, rows[i].name)].vector)
    /\ \A i \in 1..(Len(rows) - 1) : ~RLess(rows[i].movement, rows[i + 1].movement)

\* C12: movement_df(C1, C2, metric), for two collections that share a key
\* and any metric the similarity queries take, returns one row for each key
\* present in both and none for any other, each row holding the distance
\* under metric between C1[k].vector and C2[k].vector, rows in descending
\* order of distance.
C12_MovementOneRowPerCommonKey ==
    (MovementCall /\ Overlap(MovementLeft, MovementRight) # {}) =>
        (ret.status = "return" /\ OneRowPerCommonKey(ret.value))

\* The same for the metrics paired_distances knows by name.
MovementUnderPairedMetric ==
    (MovementCall /\ Overlap(MovementLeft, MovementRight) # {}
        /\ MovementMetric \in PairedMetrics) =>
        (ret.status = "return" /\ OneRowPerCommonKey(ret.value))

\* Two collections with a common key and a key of their own each, the
\* common key's vectors apart.
MovementReturned ==
    /\ MovementCall /\ ret.status = "return"
    /\ KeySet(MovementLeft) \ KeySet(MovementRight) # {}
    /\ KeySet(MovementRight) \ KeySet(MovementLeft) # {}
    /\ \E i \in 1..Len(ret.value) : ret.value[i].movement # RZero

(* ------------------------------- C13 ----------------------------------- *)

\* Whether the member at place r comes before the member at place p in
\* the order by distance to the query, equal distances by place.
Before(r, p) ==
    \/ RLess(MemberDistance(r), MemberDistance(p))
    \/ (MemberDistance(r) = MemberDistance(p) /\ r < p)

\* The place of the member that is i-th in that order.
PlaceOfRank(i) ==
    CHOOSE p \in 1..Len(ScoreEntries) :
        Cardinality({r \in 1..Len(ScoreEntries) : Before(r, p)}) = i - 1

\* C13: score_similar returns the first n members in the order by
\* distance with ties in the collection's iteration order: tied members
\* come out in iteration order and of a tie across the cut at n the
\* earlier members are kept. The result is this one sequence, a function
\* of the collection, the query, n and the metric, so two calls with the
\* same four return the same.
C13_TiesInIterationOrder ==
    (ScoreCall /\ ret.status = "return") =>
        /\ Len(ret.value) = ScoreN
        /\ \A i \in 1..Len(ret.value) :
              /\ ret.value[i].emb = ScoreEntries[PlaceOfRank(i)].val
              /\ ret.value[i].dist = MemberDistance(PlaceOfRank(i))

\* A tie across the cut: two members at the same distance, the earlier
\* one returned last and the later one left out.
C13_Witness ==
    /\ ScoreCall /\ ret.status = "return"
    /\ ScoreN >= 1 /\ ScoreN < Len(ScoreEntries)
    /\ MemberDistance(PlaceOfRank(ScoreN)) = MemberDistance(PlaceOfRank(ScoreN + 1))
    /\ ScoreEntries[PlaceOfRank(ScoreN)].val # ScoreEntries[PlaceOfRank(ScoreN + 1)].val

(* ------------------------------- C14 ----------------------------------- *)

\* The Embedding objects a dict holds.
Held(d) == {d[i].val : i \in 1..Len(d)}

\* The last call returned a collection made by filter, merge, a list
\* index or embset_similar.
DerivedCall ==
    /\ ret.status = "return"
    /\ ret.op \in {"filter", "merge", "subset", "embset_similar"}

\* The collections the last call was made from.
DerivedFrom == IF ret.op = "merge" THEN {ret.self, ret.args[1]} ELSE {ret.self}

\* C14: the collection returned by filter, merge, a list index or
\* embset_similar holds no Embedding object that a collection it was made
\* from holds: no entity object is held by two collections.
C14_EntitiesAreNotShared ==
    DerivedCall =>
        \A c \in DerivedFrom :
            IsMapping(c) => Held(RetEntries) \cap Held(Entries(c)) = {}

====
